---- MODULE Spec2Model ----
(***************************************************************************)
(* A model of the Rating-Magic grading assistant (src/App.tsx, the AI      *)
(* adapter in src/types.ts, the constants in src/unnamed/part_003).        *)
(*                                                                         *)
(* Strings are sequences of characters (one-character TLA+ strings).  A    *)
(* run of CJK characters that no operation of the program looks into is    *)
(* written as one token in pinyin ("ChaoJiYouYi").  null is the empty      *)
(* sequence <<>> and a number n is <<n>> wherever the program's type is    *)
(* "number | null" or "string | null".                                      *)
(***************************************************************************)
EXTENDS Integers, Sequences, FiniteSets, TLC

VARIABLES
  tasks,                \* useState<string[]>            App.tsx:55
  criteria,             \* useState<Criterion[]>: the array, as addresses into heap
  heap,                 \* the Criterion objects the arrays point to
  totalScoreThresholds, \* the useMemo cell                App.tsx:100
  students,             \* useState<Student[]>           App.tsx:59
  isEvaluating,         \* App.tsx:62
  evaluatingProgress,   \* App.tsx:63
  errorToast,           \* App.tsx:65
  report,               \* App.tsx:73
  showReport,           \* App.tsx:74
  batches,              \* the running activations of startBatchGrading
  analyses,             \* the pending activations of the class analysis handler
  download,             \* the file the export handler produced last
  reads,                \* the file reads in flight: the text, and the tasks the handler saw
  nextId,               \* the next value uuidv4() returns
  scoreEdits,           \* how many rubric fields were typed (bounded)
  templates,            \* useState<Template[]>         App.tsx:68
  selectedTemplateId,   \* App.tsx:69
  slot,                 \* localStorage item 'sailor_grading_templates'
  generations           \* the activations of the rubric generation handler

vars == <<tasks, criteria, heap, totalScoreThresholds, students, isEvaluating,
          evaluatingProgress, errorToast, report, showReport, batches,
          analyses, download, reads, nextId, scoreEdits, templates, selectedTemplateId,
          slot, generations>>

(***************************** bounds **************************************)
MaxCriteria == 2
MaxScoreEdits == 1
MaxIds == 4
MaxStudents == 2
MaxBatches == 2
MaxAnalyses == 1
MaxTasks == 2
MaxTemplates == 1
MaxGenerations == 1
MaxReads == 1

\* the scores a teacher types into a level's score field
ScoreSet == {0, 95}

(***************************** strings *************************************)
\* Array.prototype.join: null joins as the empty string
RECURSIVE Join(_, _)
Join(ss, sep) ==
  IF ss = <<>> THEN <<>>
  ELSE IF Len(ss) = 1 THEN Head(ss)
  ELSE Head(ss) \o sep \o Join(Tail(ss), sep)

IsPrefix(p, s) == Len(p) <= Len(s) /\ SubSeq(s, 1, Len(p)) = p

\* String.prototype.split with a non-empty separator
RECURSIVE SplitFrom(_, _, _)
SplitFrom(s, sep, cur) ==
  IF s = <<>> THEN <<cur>>
  ELSE IF IsPrefix(sep, s)
       THEN <<cur>> \o SplitFrom(SubSeq(s, Len(sep) + 1, Len(s)), sep, <<>>)
       ELSE SplitFrom(Tail(s), sep, Append(cur, Head(s)))

Split(s, sep) == SplitFrom(s, sep, <<>>)

(***************************** rubric **************************************)
DEFAULT_LEVELS ==
  << [label |-> <<"ChaoJiYouYi", " ", "(", "Superb", ")">>, score |-> 100, criteria |-> <<>>],
     [label |-> <<"BiaoXianLiangHao", " ", "(", "Good", ")">>, score |-> 89, criteria |-> <<>>],
     [label |-> <<"YiJingZuoDao", " ", "(", "Done", ")">>, score |-> 79, criteria |-> <<>>],
     [label |-> <<"HaiYaoJiaYou", " ", "(", "Developing", ")">>, score |-> 69, criteria |-> <<>>],
     [label |-> <<"NuLiGaiJin", " ", "(", "Beginning", ")">>, score |-> 59, criteria |-> <<>>] >>

\* the label shown when no band matches (App.tsx:118)
Undetermined == <<"WeiPanDing">>

\* DEFAULT_LEVELS[i].label.split(' (')[0]
BaseLabel(i) == Split(DEFAULT_LEVELS[i].label, <<" ", "(">>)[1]

\* the Criterion objects of an array of addresses
Deref(cs, h) == [i \in 1..Len(cs) |-> h[cs[i]]]

\* mutant: the lower bound of a level is the next level's score itself
AddFloors_NoPlusOne(rawFloors, levels) ==
  [l \in 1..Len(rawFloors) |->
     IF l <= Len(levels)
     THEN rawFloors[l] + (IF l < 5 THEN levels[l + 1].score ELSE 0)
     ELSE rawFloors[l]]

\* c.levels.forEach: the lower bounds one criterion adds to rawFloors
AddFloors(rawFloors, levels) ==
  [l \in 1..Len(rawFloors) |->
     IF l <= Len(levels)
     THEN rawFloors[l] + (IF l < 5 THEN levels[l + 1].score + 1 ELSE 0)
     ELSE rawFloors[l]]

\* mutant: maxPossibleScore is assigned, not added to
RECURSIVE Accumulate_MaxAssigned(_, _, _)
Accumulate_MaxAssigned(cs, rawFloors, maxPossibleScore) ==
  IF cs = <<>> THEN <<rawFloors, maxPossibleScore>>
  ELSE Accumulate_MaxAssigned(Tail(cs), AddFloors(rawFloors, Head(cs).levels),
                              Head(cs).levels[1].score)

\* criteria.forEach of totalScoreThresholds: <<rawFloors, maxPossibleScore>>
RECURSIVE Accumulate(_, _, _)
Accumulate(cs, rawFloors, maxPossibleScore) ==
  IF cs = <<>> THEN <<rawFloors, maxPossibleScore>>
  ELSE Accumulate(Tail(cs), AddFloors(rawFloors, Head(cs).levels),
                  maxPossibleScore + Head(cs).levels[1].score)

\* mutant: a band's ceiling is the floor above it, not that floor minus one
Thresholds_CeilingIsFloor(cs) ==
  LET acc == Accumulate(cs, <<0, 0, 0, 0, 0>>, 0)
  IN  [i \in 1..5 |->
         [label |-> BaseLabel(i),
          floor |-> acc[1][i],
          ceiling |-> IF i = 1 THEN acc[2] ELSE acc[1][i - 1]]]

\* App.tsx:100-114
Thresholds(cs) ==
  LET acc == Accumulate(cs, <<0, 0, 0, 0, 0>>, 0)
      rawFloors == acc[1]
      maxPossibleScore == acc[2]
  IN  [i \in 1..5 |->
         [label |-> BaseLabel(i),
          floor |-> rawFloors[i],
          ceiling |-> IF i = 1 THEN maxPossibleScore ELSE rawFloors[i - 1] - 1]]

\* Array.prototype.find over the bands
RECURSIVE FindBand(_, _, _)
FindBand(th, score, i) ==
  IF i > Len(th) THEN 0
  ELSE IF score >= th[i].floor /\ score <= th[i].ceiling THEN i
  ELSE FindBand(th, score, i + 1)

getLevelLabelFromScore(th, score) ==
  LET match == FindBand(th, score, 1)
  IN  IF match # 0 THEN th[match].label ELSE Undetermined

\* the address of a new Criterion object
NewAddr(h) == CHOOSE a \in 1..(Cardinality(DOMAIN h) + 1) : a \notin DOMAIN h

NewCriterion(id) == [id |-> id, focus |-> <<>>, levels |-> DEFAULT_LEVELS]

\* objects no array points to any more are collected
Collect(h, cs) == [a \in {cs[i] : i \in 1..Len(cs)} |-> h[a]]

RECURSIVE Flatten(_)
Flatten(ss) == IF ss = <<>> THEN <<>> ELSE Head(ss) \o Flatten(Tail(ss))

\* the addresses held by the working rubric cs, the templates ts and the
\* closures of the pending generations gs
Roots(cs, ts, gs) ==
  cs \o Flatten([k \in 1..Len(ts) |-> ts[k].criteria])
     \o Flatten([k \in 1..Len(gs) |-> gs[k].criteria])

RubricUnchanged == UNCHANGED <<criteria, heap, totalScoreThresholds, scoreEdits>>
StudentsUnchanged == UNCHANGED <<students>>
GradingUnchanged ==
  UNCHANGED <<isEvaluating, evaluatingProgress, errorToast, report, showReport,
              batches, analyses>>
CsvUnchanged == UNCHANGED <<download, reads>>
TemplatesUnchanged == UNCHANGED <<templates, selectedTemplateId, slot, generations>>

\* a synchronous section of a batch is running: no other handler can start
Busy == \E b \in DOMAIN batches : batches[b].pc = "loop"

\* App.tsx:337
AddCriterion ==
  /\ ~Busy
  /\ Len(criteria) < MaxCriteria
  /\ nextId <= MaxIds
  /\ LET a == NewAddr(heap)
     IN  /\ heap' = (a :> NewCriterion(nextId)) @@ heap
         /\ criteria' = Append(criteria, a)
         /\ totalScoreThresholds' = Thresholds(Deref(criteria', heap'))
  /\ nextId' = nextId + 1
  /\ UNCHANGED <<tasks, scoreEdits>>
  /\ StudentsUnchanged /\ GradingUnchanged /\ CsvUnchanged /\ TemplatesUnchanged

\* App.tsx:275
RemoveCriterion(cIdx) ==
  /\ ~Busy
  /\ cIdx \in 1..Len(criteria)
  /\ criteria' = SelectSeq(criteria, LAMBDA a : heap[a].id # heap[criteria[cIdx]].id)
  /\ heap' = Collect(heap, Roots(criteria', templates, generations))
  /\ totalScoreThresholds' = Thresholds(Deref(criteria', heap'))
  /\ UNCHANGED <<tasks, nextId, scoreEdits>>
  /\ StudentsUnchanged /\ GradingUnchanged /\ CsvUnchanged /\ TemplatesUnchanged

\* App.tsx:318: the level object is written in place, then a new array is set
EditScore(cIdx, lIdx, v) ==
  /\ ~Busy
  /\ cIdx \in 1..Len(criteria)
  /\ lIdx \in 1..Len(heap[criteria[cIdx]].levels)
  /\ scoreEdits < MaxScoreEdits
  /\ scoreEdits' = scoreEdits + 1
  /\ heap' = [heap EXCEPT ![criteria[cIdx]].levels[lIdx].score = v]
  /\ criteria' = criteria
  /\ totalScoreThresholds' = Thresholds(Deref(criteria', heap'))
  /\ UNCHANGED <<tasks, nextId>>
  /\ StudentsUnchanged /\ GradingUnchanged /\ CsvUnchanged /\ TemplatesUnchanged

(***************************** students ************************************)
Digits == <<"0", "1", "2", "3", "4", "5", "6", "7", "8", "9">>

\* Number.prototype.toString, base 10
RECURSIVE NatToString(_)
NatToString(n) ==
  IF n < 10 THEN <<Digits[n + 1]>>
  ELSE NatToString(n \div 10) \o <<Digits[(n % 10) + 1]>>

NumToString(n) == IF n < 0 THEN <<"-">> \o NatToString(0 - n) ELSE NatToString(n)

IsSpace(ch) == ch \in {" ", "\n", "\t", "\r"}

\* String.prototype.trim
RECURSIVE TrimLeft(_)
TrimLeft(s) == IF s # <<>> /\ IsSpace(Head(s)) THEN TrimLeft(Tail(s)) ELSE s

RECURSIVE TrimRight(_)
TrimRight(s) ==
  IF s # <<>> /\ IsSpace(s[Len(s)]) THEN TrimRight(SubSeq(s, 1, Len(s) - 1)) ELSE s

Trim(s) == TrimRight(TrimLeft(s))

\* the answers typed into a student's answer field
AnswerSet == { <<"a">>, <<" ">> }

\* the object literal of App.tsx:356 and App.tsx:360
NewStudent(id, name, contents) ==
  [id |-> id, name |-> name, contents |-> contents, feedback |-> <<>>,
   score |-> <<>>, levelLabel |-> <<>>, status |-> "idle", errorMsg |-> <<>>]

\* App.tsx:360
AddStudent ==
  /\ ~Busy
  /\ Len(students) < MaxStudents
  /\ nextId <= MaxIds
  /\ students' = Append(students,
       NewStudent(nextId, <<"XueSheng", " ">> \o NumToString(Len(students) + 1),
                  [i \in 1..Len(tasks) |-> <<>>]))
  /\ nextId' = nextId + 1
  /\ UNCHANGED tasks
  /\ RubricUnchanged /\ GradingUnchanged /\ CsvUnchanged /\ TemplatesUnchanged

\* a[i] = v for i up to one past the end of the array
SetAt(a, i, v) == [k \in 1..(IF i > Len(a) THEN i ELSE Len(a)) |-> IF k = i THEN v ELSE a[k]]

\* App.tsx:387 (a cell is rendered for each task; the cells of a student are
\* filled from the left, so that no hole is left in the array)
EditAnswer(sIdx, tIdx, v) ==
  /\ ~Busy
  /\ sIdx \in 1..Len(students)
  /\ tIdx \in 1..Len(tasks)
  /\ tIdx \in 1..(Len(students[sIdx].contents) + 1)
  /\ students' = [students EXCEPT ![sIdx].contents = SetAt(@, tIdx, v)]
  /\ UNCHANGED <<tasks, nextId>>
  /\ RubricUnchanged /\ GradingUnchanged /\ CsvUnchanged /\ TemplatesUnchanged

\* App.tsx:411
RemoveStudent(sIdx) ==
  /\ ~Busy
  /\ sIdx \in 1..Len(students)
  /\ students' = SelectSeq(students, LAMBDA x : x.id # students[sIdx].id)
  /\ UNCHANGED <<tasks, nextId>>
  /\ RubricUnchanged /\ GradingUnchanged /\ CsvUnchanged /\ TemplatesUnchanged

(***************************** the AI adapter ******************************)
\* what the model returns for an evaluation
AiScores == {85, 101}
AiFeedback == <<"f">>
AiLabel == <<"A">>

\* generateContent either rejects (network, rate limit) or resolves with a
\* text: empty, not JSON, or the JSON of a GradingResult
EvalResponses ==
  {[kind |-> "reject", value |-> <<>>], [kind |-> "empty", value |-> <<>>],
   [kind |-> "garbage", value |-> <<>>]}
  \cup {[kind |-> "json",
         value |-> [score |-> sc, levelLabel |-> AiLabel, feedback |-> AiFeedback]] :
        sc \in AiScores}

\* src/types.ts:104-130: the call's outcome for the caller
evaluateStudentWork(resp) ==
  IF resp.kind = "json" THEN [ok |-> TRUE, res |-> resp.value]
  ELSE [ok |-> FALSE, res |-> <<>>]

ReportFailed == <<"BaoGaoShengChengShiBai">>
AnalysisResponses ==
  {[kind |-> "reject", text |-> <<>>], [kind |-> "text", text |-> <<>>],
   [kind |-> "text", text |-> <<"r">>]}

\* src/types.ts:136-149: no try/catch, response.text || fallback
generateClassAnalysis(resp) ==
  IF resp.kind = "reject" THEN [ok |-> FALSE, res |-> <<>>]
  ELSE [ok |-> TRUE, res |-> IF resp.text = <<>> THEN ReportFailed ELSE resp.text]

(***************************** batch grading *******************************)
ErrorMsg == <<"NengLiangZhongDuan", " ", "(", "API", " ", "PinLvXianZhi", ")">>
ToastMsg == <<"YueLiangNengLiangBuZu">>

\* App.tsx:123
IsTarget(s) ==
  s.status # "done" /\ \E k \in 1..Len(s.contents) : Trim(s.contents[k]) # <<>>

Ids(ss) == [k \in 1..Len(ss) |-> ss[k].id]

\* prev.map(st => st.id === id ? {...} : st); upd[k] is the object the arrow
\* function builds from ss[k]
MapStudent(ss, id, upd) == [k \in 1..Len(ss) |-> IF ss[k].id = id THEN upd[k] ELSE ss[k]]

\* App.tsx:132
MarkLoading(st) == [st EXCEPT !.status = "loading"]

\* App.tsx:138-140
MarkDone(st, score, label, feedback) ==
  [st EXCEPT !.status = "done", !.score = <<score>>, !.levelLabel = label,
             !.feedback = feedback]

\* mutant: the failure also overwrites the feedback with the message
MarkError_WritesFeedback(st) ==
  [st EXCEPT !.status = "error", !.errorMsg = ErrorMsg, !.feedback = ErrorMsg]

\* App.tsx:144
MarkError(st) == [st EXCEPT !.status = "error", !.errorMsg = ErrorMsg]

\* an activation that returned is gone
Retire(bs) == [b \in {x \in DOMAIN bs : bs[x].pc # "done"} |-> bs[b]]

\* the number a new activation is known by
NewBatch(bs) == CHOOSE b \in 1..(Cardinality(DOMAIN bs) + 1) : b \notin DOMAIN bs

\* App.tsx:122-127: the click up to the loop
startBatchGrading ==
  /\ ~Busy
  /\ ~isEvaluating                       \* disabled={isEvaluating}
  /\ Cardinality(DOMAIN batches) < MaxBatches
  /\ LET targets == SelectSeq(students, IsTarget)
     IN  IF Len(targets) = 0
         THEN UNCHANGED <<isEvaluating, evaluatingProgress, batches>>
         ELSE /\ isEvaluating' = TRUE
              /\ evaluatingProgress' = [current |-> 0, total |-> Len(targets)]
              /\ batches' = (NewBatch(batches) :>
                   [pc |-> "loop", i |-> 0, targets |-> Ids(targets),
                    thresholds |-> totalScoreThresholds,
                    issued |-> <<>>, outcomes |-> <<>>, delayed |-> FALSE]) @@ batches
  /\ UNCHANGED <<tasks, students, errorToast, report, showReport, analyses, nextId>>
  /\ RubricUnchanged /\ CsvUnchanged /\ TemplatesUnchanged

\* the batch after the loop head issued the call for target i + 1
IssueCall(bt) ==
  [bt EXCEPT !.pc = "awaitEval", !.i = bt.i + 1,
             !.issued = Append(bt.issued, bt.targets[bt.i + 1]), !.delayed = FALSE]

\* App.tsx:129-135 and 148: the loop head, up to the await of the AI call
LoopStep(b) ==
  /\ b \in DOMAIN batches
  /\ batches[b].pc = "loop"
  /\ LET bt == batches[b]
     IN  IF bt.i < Len(bt.targets)
         THEN /\ evaluatingProgress' = [evaluatingProgress EXCEPT !.current = bt.i + 1]
              /\ students' = MapStudent(students, bt.targets[bt.i + 1],
                                          [k \in 1..Len(students) |-> MarkLoading(students[k])])
              /\ batches' = [batches EXCEPT ![b] = IssueCall(bt)]
              /\ UNCHANGED isEvaluating
         ELSE /\ isEvaluating' = FALSE
              /\ batches' = Retire([batches EXCEPT ![b].pc = "done"])
              /\ UNCHANGED <<evaluatingProgress, students>>
  /\ UNCHANGED <<tasks, errorToast, report, showReport, analyses, nextId>>
  /\ RubricUnchanged /\ CsvUnchanged /\ TemplatesUnchanged

\* the batch after the try block got its result (App.tsx:141: the timer starts)
AfterSuccess(bt) == [bt EXCEPT !.pc = "awaitDelay", !.outcomes = Append(bt.outcomes, "ok")]

\* mutant: the first failure ends the activation
AfterCatch_Halts(bt) == [bt EXCEPT !.pc = "done", !.outcomes = Append(bt.outcomes, "err")]

\* the batch after the catch block: control falls through to the loop head
AfterCatch(bt) == [bt EXCEPT !.pc = "loop", !.outcomes = Append(bt.outcomes, "err")]

\* mutant: the label the model returned is stored
autoDetectedLabel_FromAi(bt, res) == res.levelLabel

\* App.tsx:136; the function is the one of the render the batch started in
autoDetectedLabel(bt, res) == getLevelLabelFromScore(bt.thresholds, res.score)

\* App.tsx:135-146: the AI call of batch b settles
EvalSettle(b, resp) ==
  /\ ~Busy
  /\ b \in DOMAIN batches
  /\ batches[b].pc = "awaitEval"
  /\ LET bt == batches[b]
         id == bt.targets[bt.i]
         r == evaluateStudentWork(resp)
         Done(st) == MarkDone(st, r.res.score, autoDetectedLabel(bt, r.res), r.res.feedback)
     IN  IF r.ok
         THEN /\ students' = MapStudent(students, id,
                                          [k \in 1..Len(students) |-> Done(students[k])])
              /\ batches' = Retire([batches EXCEPT ![b] = AfterSuccess(bt)])
              /\ UNCHANGED errorToast
         ELSE /\ students' = MapStudent(students, id,
                                          [k \in 1..Len(students) |-> MarkError(students[k])])
              /\ errorToast' = ToastMsg
              /\ batches' = Retire([batches EXCEPT ![b] = AfterCatch(bt)])
  /\ UNCHANGED <<tasks, isEvaluating, evaluatingProgress, report, showReport,
                 analyses, nextId>>
  /\ RubricUnchanged /\ CsvUnchanged /\ TemplatesUnchanged

\* App.tsx:141: the 4000 ms timer fires
DelayElapsed(b) ==
  /\ ~Busy
  /\ b \in DOMAIN batches
  /\ batches[b].pc = "awaitDelay"
  /\ batches' = [batches EXCEPT ![b].pc = "loop", ![b].delayed = TRUE]
  /\ UNCHANGED <<tasks, students, isEvaluating, evaluatingProgress, errorToast,
                 report, showReport, analyses, nextId>>
  /\ RubricUnchanged /\ CsvUnchanged /\ TemplatesUnchanged

(***************************** class analysis ******************************)
\* App.tsx:421-423: the click up to the await
ClickAnalysis ==
  /\ ~Busy
  /\ analyses < MaxAnalyses
  /\ isEvaluating' = TRUE
  /\ evaluatingProgress' = [current |-> 0, total |-> 1]
  /\ analyses' = analyses + 1
  /\ UNCHANGED <<tasks, students, errorToast, report, showReport, batches, nextId>>
  /\ RubricUnchanged /\ CsvUnchanged /\ TemplatesUnchanged

\* App.tsx:423-424: the call settles; a rejection ends the handler there
AnalysisSettle(resp) ==
  /\ ~Busy
  /\ analyses > 0
  /\ analyses' = analyses - 1
  /\ LET r == generateClassAnalysis(resp)
     IN  IF r.ok
         THEN /\ report' = r.res
              /\ showReport' = TRUE
              /\ isEvaluating' = FALSE
         ELSE UNCHANGED <<report, showReport, isEvaluating>>
  /\ UNCHANGED <<tasks, students, evaluatingProgress, errorToast, batches, nextId>>
  /\ RubricUnchanged /\ CsvUnchanged /\ TemplatesUnchanged

(***************************** CSV *****************************************)
\* the names and answers typed in the CSV scenarios
NameSet == { <<",">> }
CsvAnswerSet == { <<"a">>, <<"\"">>, <<"\n">> }

\* App.tsx:381
EditName(sIdx, v) ==
  /\ ~Busy
  /\ sIdx \in 1..Len(students)
  /\ students' = MapStudent(students, students[sIdx].id,
                          [k \in 1..Len(students) |-> [students[k] EXCEPT !.name = v]])
  /\ UNCHANGED <<tasks, nextId>>
  /\ RubricUnchanged /\ GradingUnchanged /\ CsvUnchanged /\ TemplatesUnchanged

\* c.replace(/"/g, '""')
RECURSIVE DoubleQuotes(_)
DoubleQuotes(s) ==
  IF s = <<>> THEN <<>>
  ELSE (IF Head(s) = "\"" THEN <<"\"", "\"">> ELSE <<Head(s)>>) \o DoubleQuotes(Tail(s))

Quoted(s) == <<"\"">> \o DoubleQuotes(s) \o <<"\"">>

\* App.tsx:431
CsvHeader(ts) ==
  Join(<< <<"XingMing">> >> \o [i \in 1..Len(ts) |-> <<"Ti">> \o NumToString(i)]
       \o << <<"DeFen">>, <<"DengJi">>, <<"PingYu">> >>, <<",">>)

\* App.tsx:432: one line of the body
CsvLine(s) ==
  Join(<<s.name>> \o [k \in 1..Len(s.contents) |-> Quoted(s.contents[k])]
       \o << (IF s.score = <<>> THEN <<>> ELSE NumToString(s.score[1])),
             s.levelLabel, Quoted(s.feedback) >>, <<",">>)

\* App.tsx:431-433: the text of the Blob
CsvText(ss, ts) ==
  <<"BOM">> \o CsvHeader(ts) \o <<"\n">> \o Join([k \in 1..Len(ss) |-> CsvLine(ss[k])], <<"\n">>)

\* App.tsx:430-436; the file remembers the list and the tasks it was made of
ExportCsv ==
  /\ ~Busy
  /\ download' = << [text |-> CsvText(students, tasks), source |-> students,
                     tasks |-> tasks] >>
  /\ UNCHANGED <<tasks, students, nextId, reads>>
  /\ RubricUnchanged /\ GradingUnchanged /\ TemplatesUnchanged

\* mutant: the header row is not dropped
CsvRows_HeaderKept(text) ==
  LET lines == Split(text, <<"\n">>)
  IN  [k \in 1..Len(lines) |-> Split(lines[k], <<",">>)]

\* App.tsx:355
CsvRows(text) ==
  LET lines == Split(text, <<"\n">>)
  IN  Tail([k \in 1..Len(lines) |-> Split(lines[k], <<",">>)])

\* App.tsx:356: r[i+1] || ""
Cell(r, i) == IF i <= Len(r) THEN r[i] ELSE <<>>

\* the files chosen in the file dialog beside the exported one: a header and
\* two rows, the second without answer columns; a header alone
CsvFiles ==
  { <<"h", "\n", "A", ",", "x", ",", "y", "\n", "B">>, <<"h">> }

\* App.tsx:351-353 and 357: a file is chosen and the reader starts; its onload
\* callback closes over the tasks of this render
ChooseFile(text) ==
  /\ ~Busy
  /\ Len(reads) < MaxReads
  /\ reads' = Append(reads, [text |-> text, tasks |-> tasks])
  /\ UNCHANGED <<tasks, students, nextId, download>>
  /\ RubricUnchanged /\ GradingUnchanged /\ TemplatesUnchanged

\* App.tsx:351-357: the exported file is chosen
ChooseExport ==
  /\ download # <<>>
  /\ ChooseFile(download[1].text)

\* App.tsx:353-357: r.onload
FileLoaded(r) ==
  /\ ~Busy
  /\ r \in 1..Len(reads)
  /\ LET rows == CsvRows(reads[r].text)
     IN  /\ nextId + Len(rows) - 1 <= MaxIds
         /\ students' = [k \in 1..Len(rows) |->
                           NewStudent(nextId + k - 1, rows[k][1],
                                      [i \in 1..Len(reads[r].tasks) |-> Cell(rows[k], i + 1)])]
         /\ nextId' = nextId + Len(rows)
  /\ reads' = [k \in 1..(Len(reads) - 1) |-> IF k < r THEN reads[k] ELSE reads[k + 1]]
  /\ UNCHANGED <<tasks, download>>
  /\ RubricUnchanged /\ GradingUnchanged /\ TemplatesUnchanged

(***************************** JSON ****************************************)
\* a JSON text is a sequence of characters, as every string here

\* the escapes JSON.stringify writes inside a string literal
RECURSIVE Escape(_)
Escape(s) ==
  IF s = <<>> THEN <<>>
  ELSE (IF Head(s) \in {"\"", "\\"} THEN <<"\\", Head(s)>>
        ELSE IF Head(s) = "\n" THEN <<"\\", "n">>
        ELSE <<Head(s)>>) \o Escape(Tail(s))

JStr(s) == <<"\"">> \o Escape(s) \o <<"\"">>
JNum(n) == NumToString(n)
JArr(items) == <<"[">> \o Join(items, <<",">>) \o <<"]">>
\* members is a sequence of <<key, text of the value>>
JObj(members) ==
  <<"{">> \o Join([k \in 1..Len(members) |-> JStr(members[k][1]) \o <<":">> \o members[k][2]],
                  <<",">>) \o <<"}">>

\* JSON.stringify of a Level, a Criterion, a Criterion[] and a Template[]
StringifyLevel(l) ==
  JObj(<< <<<<"label">>, JStr(l.label)>>, <<<<"score">>, JNum(l.score)>>,
          <<<<"criteria">>, JStr(l.criteria)>> >>)

StringifyCriterion(c) ==
  JObj(<< <<<<"id">>, JStr(NumToString(c.id))>>, <<<<"focus">>, JStr(c.focus)>>,
          <<<<"levels">>, JArr([l \in 1..Len(c.levels) |-> StringifyLevel(c.levels[l])])>> >>)

StringifyCriteria(cs) == JArr([k \in 1..Len(cs) |-> StringifyCriterion(cs[k])])

StringifyTemplate(t, h) ==
  JObj(<< <<<<"id">>, JStr(NumToString(t.id))>>, <<<<"name">>, JStr(t.name)>>,
          <<<<"tasks">>, JArr([k \in 1..Len(t.tasks) |-> JStr(t.tasks[k])])>>,
          <<<<"criteria">>, StringifyCriteria(Deref(t.criteria, h))>>,
          <<<<"timestamp">>, JNum(t.timestamp)>> >>)

StringifyTemplates(ts, h) == JArr([k \in 1..Len(ts) |-> StringifyTemplate(ts[k], h)])

\* JSON.parse of a text JSON.stringify wrote: the value that starts at
\* position p and the position after it.  A string is a sequence of
\* characters, an array a sequence of values, an object a function of its keys.
RECURSIVE ParseValue(_, _), ParseString(_, _, _), ParseNumber(_, _, _),
          ParseItems(_, _, _), ParseMembers(_, _, _)
ParseString(t, p, acc) ==
  IF t[p] = "\"" THEN [v |-> acc, p |-> p + 1]
  ELSE IF t[p] = "\\"
       THEN ParseString(t, p + 2, Append(acc, IF t[p + 1] = "n" THEN "\n" ELSE t[p + 1]))
       ELSE ParseString(t, p + 1, Append(acc, t[p]))

DigitValue(ch) == CHOOSE d \in 0..9 : Digits[d + 1] = ch
IsDigit(ch) == \E d \in 1..10 : Digits[d] = ch

ParseNumber(t, p, acc) ==
  IF p <= Len(t) /\ IsDigit(t[p]) THEN ParseNumber(t, p + 1, 10 * acc + DigitValue(t[p]))
  ELSE [v |-> acc, p |-> p]

ParseItems(t, p, acc) ==
  LET r == ParseValue(t, p)
  IN  IF t[r.p] = "," THEN ParseItems(t, r.p + 1, Append(acc, r.v))
      ELSE [v |-> Append(acc, r.v), p |-> r.p + 1]

ParseMembers(t, p, acc) ==
  LET key == ParseString(t, p + 1, <<>>)
      val == ParseValue(t, key.p + 1)
      obj == [k \in DOMAIN acc \cup {key.v} |-> IF k = key.v THEN val.v ELSE acc[k]]
  IN  IF t[val.p] = "," THEN ParseMembers(t, val.p + 1, obj)
      ELSE [v |-> obj, p |-> val.p + 1]

ParseValue(t, p) ==
  IF t[p] = "\"" THEN ParseString(t, p + 1, <<>>)
  ELSE IF t[p] = "[" THEN (IF t[p + 1] = "]" THEN [v |-> <<>>, p |-> p + 2]
                           ELSE ParseItems(t, p + 1, <<>>))
  ELSE IF t[p] = "{" THEN (IF t[p + 1] = "}" THEN [v |-> <<>>, p |-> p + 2]
                           ELSE ParseMembers(t, p + 1, <<>>))
  ELSE IF t[p] = "-" THEN [v |-> 0 - ParseNumber(t, p + 1, 0).v, p |-> ParseNumber(t, p + 1, 0).p]
  ELSE ParseNumber(t, p, 0)

JsonParse(t) == ParseValue(t, 1).v

\* the uuid a parsed id stands for
IdOf(s) == ParseNumber(s, 1, 0).v

\* the Level, Criterion and Template objects of a parsed value
LevelOf(o) ==
  [label |-> o[<<"label">>], score |-> o[<<"score">>], criteria |-> o[<<"criteria">>]]

CriterionOf(o) ==
  [id |-> IdOf(o[<<"id">>]), focus |-> o[<<"focus">>],
   levels |-> [l \in 1..Len(o[<<"levels">>]) |-> LevelOf(o[<<"levels">>][l])]]

CriteriaOf(a) == [k \in 1..Len(a) |-> CriterionOf(a[k])]

\* JSON.parse(JSON.stringify(x)) of a Criterion[]
DeepCopy(cs) ==
  CHOOSE copy \in {CriteriaOf(v) : v \in {JsonParse(t) : t \in {StringifyCriteria(cs)}}} : TRUE

(***************************** tasks ***************************************)
\* the texts typed into a task field
TaskSet == { <<"T">> }

\* App.tsx:238
EditTask(idx, v) ==
  /\ ~Busy
  /\ idx \in 1..Len(tasks)
  /\ tasks' = [tasks EXCEPT ![idx] = v]
  /\ UNCHANGED nextId
  /\ RubricUnchanged /\ StudentsUnchanged /\ GradingUnchanged /\ CsvUnchanged
  /\ TemplatesUnchanged

\* a.filter((_, i) => i !== idx)
RemoveAt(a, idx) == [k \in 1..(Len(a) - 1) |-> IF k < idx THEN a[k] ELSE a[k + 1]]

\* App.tsx:242-243: the button is rendered when there is more than one task
RemoveTask(idx) ==
  /\ ~Busy
  /\ Len(tasks) > 1
  /\ idx \in 1..Len(tasks)
  /\ tasks' = RemoveAt(tasks, idx)
  /\ UNCHANGED nextId
  /\ RubricUnchanged /\ StudentsUnchanged /\ GradingUnchanged /\ CsvUnchanged
  /\ TemplatesUnchanged

\* App.tsx:249
AddTask ==
  /\ ~Busy
  /\ Len(tasks) < MaxTasks
  /\ tasks' = Append(tasks, <<>>)
  /\ UNCHANGED nextId
  /\ RubricUnchanged /\ StudentsUnchanged /\ GradingUnchanged /\ CsvUnchanged
  /\ TemplatesUnchanged

(***************************** rubric texts ********************************)
FocusSet == { <<"F">> }
DescriptionSet == { <<"D">> }
\* the level whose score and description are typed in the template scenarios,
\* and the criterion and the score typed in the generation scenarios
EditedLevels == {1}
EditedCriteria == {1}
EditedScores == {95}

\* App.tsx:288: the Criterion object is written in place
EditFocus(cIdx, v) ==
  /\ ~Busy
  /\ cIdx \in 1..Len(criteria)
  /\ scoreEdits < MaxScoreEdits
  /\ scoreEdits' = scoreEdits + 1
  /\ heap' = [heap EXCEPT ![criteria[cIdx]].focus = v]
  /\ criteria' = criteria
  /\ totalScoreThresholds' = Thresholds(Deref(criteria', heap'))
  /\ UNCHANGED <<tasks, nextId>>
  /\ StudentsUnchanged /\ GradingUnchanged /\ CsvUnchanged /\ TemplatesUnchanged

\* App.tsx:326: the Level object is written in place
EditDescription(cIdx, lIdx, v) ==
  /\ ~Busy
  /\ cIdx \in 1..Len(criteria)
  /\ lIdx \in 1..Len(heap[criteria[cIdx]].levels)
  /\ scoreEdits < MaxScoreEdits
  /\ scoreEdits' = scoreEdits + 1
  /\ heap' = [heap EXCEPT ![criteria[cIdx]].levels[lIdx].criteria = v]
  /\ criteria' = criteria
  /\ totalScoreThresholds' = Thresholds(Deref(criteria', heap'))
  /\ UNCHANGED <<tasks, nextId>>
  /\ StudentsUnchanged /\ GradingUnchanged /\ CsvUnchanged /\ TemplatesUnchanged

(***************************** rubric generation ***************************)
\* the text the model writes for level i
GenText(i) == <<"g">> \o NumToString(i)

\* the number of strings in the array the model returns
GenLengths == {0, 4, 6}

GenResponses ==
  {[kind |-> "reject", value |-> <<>>], [kind |-> "empty", value |-> <<>>]}
  \cup {[kind |-> "json", value |-> [i \in 1..n |-> GenText(i)]] : n \in GenLengths}

\* src/types.ts:39-72: the call's outcome for the caller
generateRubricCriteria(resp) ==
  IF resp.kind = "json" THEN [ok |-> TRUE, res |-> resp.value]
  ELSE [ok |-> FALSE, res |-> <<>>]

\* an activation that returned: its closure is gone
Settled == [criteria |-> <<>>, cIdx |-> 0]

\* App.tsx:294-295: the click up to the await; the closure keeps the array of
\* the render and the index
ClickGenerate(cIdx) ==
  /\ ~Busy
  /\ cIdx \in 1..Len(criteria)
  /\ Len(generations) < MaxGenerations
  /\ generations' = Append(generations, [criteria |-> criteria, cIdx |-> cIdx])
  /\ UNCHANGED <<tasks, nextId, templates, selectedTemplateId, slot>>
  /\ RubricUnchanged /\ StudentsUnchanged /\ GradingUnchanged /\ CsvUnchanged

\* mutant: every returned string gets a level, also beyond the fifth
ApplyGenerated_NoGuard(levels, res) ==
  [i \in 1..(IF Len(res) > Len(levels) THEN Len(res) ELSE Len(levels)) |->
     IF i > Len(levels) THEN [label |-> <<>>, score |-> 0, criteria |-> res[i]]
     ELSE IF i <= Len(res) THEN [levels[i] EXCEPT !.criteria = res[i]]
     ELSE levels[i]]

\* App.tsx:297: res.forEach((text, i) => { if (levels[i]) levels[i].criteria = text })
ApplyGenerated(levels, res) ==
  [i \in 1..Len(levels) |->
     IF i <= Len(res) THEN [levels[i] EXCEPT !.criteria = res[i]] ELSE levels[i]]

\* App.tsx:295-298: the call of activation g settles; a rejection ends the
\* handler there
GenerateSettle(g, resp) ==
  /\ ~Busy
  /\ g \in 1..Len(generations)
  /\ generations[g] # Settled
  /\ generations' = [generations EXCEPT ![g] = Settled]
  /\ LET gen == generations[g]
         r == generateRubricCriteria(resp)
         n == gen.criteria
         written == [heap EXCEPT ![n[gen.cIdx]].levels = ApplyGenerated(@, r.res)]
     IN  IF r.ok
         THEN /\ criteria' = n
              /\ heap' = Collect(written, Roots(criteria', templates, generations'))
         ELSE /\ criteria' = criteria
              /\ heap' = Collect(heap, Roots(criteria', templates, generations'))
  /\ totalScoreThresholds' = Thresholds(Deref(criteria', heap'))
  /\ UNCHANGED <<tasks, nextId, scoreEdits, templates, selectedTemplateId, slot>>
  /\ StudentsUnchanged /\ GradingUnchanged /\ CsvUnchanged

(***************************** templates ***********************************)
\* the names typed into the save dialog
TemplateNames == { <<"N", "\"">> }

\* n fresh addresses
RECURSIVE NewAddrs(_, _)
NewAddrs(h, n) ==
  IF n = 0 THEN <<>>
  ELSE LET a == NewAddr(h)
       IN  <<a>> \o NewAddrs([x \in DOMAIN h \cup {a} |-> 0], n - 1)

\* the heap with objs[k] at addrs[k]
Store(h, addrs, objs) ==
  [a \in DOMAIN h \cup {addrs[k] : k \in 1..Len(addrs)} |->
     IF \E k \in 1..Len(addrs) : addrs[k] = a
     THEN objs[CHOOSE k \in 1..Len(addrs) : addrs[k] = a]
     ELSE h[a]]

\* App.tsx:85: the effect that runs after every change of templates
SaveEffect(ts, h) == <<StringifyTemplates(ts, h)>>

\* App.tsx:458-462: the template holds the tasks array and the criteria array
\* of the render, and through it the Criterion objects themselves
SaveTemplate(name) ==
  /\ ~Busy
  /\ Len(templates) < MaxTemplates
  /\ nextId <= MaxIds
  /\ LET n == [id |-> nextId, name |-> name, tasks |-> tasks, criteria |-> criteria,
               timestamp |-> 0]
     IN  /\ templates' = <<n>> \o templates
         /\ selectedTemplateId' = <<n.id>>
  /\ slot' = SaveEffect(templates', heap)
  /\ nextId' = nextId + 1
  /\ UNCHANGED <<tasks, generations>>
  /\ RubricUnchanged /\ StudentsUnchanged /\ GradingUnchanged /\ CsvUnchanged

\* App.tsx:203-205 and 520-523: the tasks are copied, the criteria deep-copied
UseTemplate(t) ==
  /\ tasks' = t.tasks
  /\ \E copy \in {DeepCopy(Deref(t.criteria, heap))} :
       \E addrs \in {NewAddrs(heap, Len(copy))} :
         /\ criteria' = addrs
         /\ heap' = Collect(Store(heap, addrs, copy), Roots(criteria', templates, generations))
  /\ totalScoreThresholds' = Thresholds(Deref(criteria', heap'))
  /\ selectedTemplateId' = <<t.id>>
  /\ UNCHANGED <<nextId, scoreEdits, templates, slot, generations>>
  /\ StudentsUnchanged /\ GradingUnchanged /\ CsvUnchanged

\* App.tsx:519-524: the button of template k in the list
LoadTemplate(k) ==
  /\ ~Busy
  /\ k \in 1..Len(templates)
  /\ UseTemplate(templates[k])

\* App.tsx:196-210: the select; the empty id resets to a new rubric
SelectTemplate(id) ==
  /\ ~Busy
  /\ IF id = <<>>
     THEN /\ nextId <= MaxIds
          /\ tasks' = << <<>> >>
          /\ LET a == NewAddr(heap)
             IN  /\ criteria' = <<a>>
                 /\ heap' = Collect((a :> NewCriterion(nextId)) @@ heap,
                                    Roots(criteria', templates, generations))
          /\ totalScoreThresholds' = Thresholds(Deref(criteria', heap'))
          /\ selectedTemplateId' = <<>>
          /\ nextId' = nextId + 1
          /\ UNCHANGED <<scoreEdits, templates, slot, generations>>
          /\ StudentsUnchanged /\ GradingUnchanged /\ CsvUnchanged
     ELSE \E k \in 1..Len(templates) :
            /\ templates[k].id = id[1]
            /\ \A j \in 1..(k - 1) : templates[j].id # id[1]
            /\ UseTemplate(templates[k])

\* mutant: the slot is not rewritten when a template is deleted
DeleteTemplate_SlotKept(k) ==
  /\ ~Busy
  /\ k \in 1..Len(templates)
  /\ templates' = SelectSeq(templates, LAMBDA x : x.id # templates[k].id)
  /\ selectedTemplateId' =
       IF selectedTemplateId = <<templates[k].id>> THEN <<>> ELSE selectedTemplateId
  /\ slot' = slot
  /\ heap' = Collect(heap, Roots(criteria, templates', generations))
  /\ UNCHANGED <<tasks, nextId, criteria, totalScoreThresholds, scoreEdits, generations>>
  /\ StudentsUnchanged /\ GradingUnchanged /\ CsvUnchanged

\* App.tsx:530-534, and the effect of App.tsx:84-86
DeleteTemplate(k) ==
  /\ ~Busy
  /\ k \in 1..Len(templates)
  /\ templates' = SelectSeq(templates, LAMBDA x : x.id # templates[k].id)
  /\ selectedTemplateId' =
       IF selectedTemplateId = <<templates[k].id>> THEN <<>> ELSE selectedTemplateId
  /\ slot' = SaveEffect(templates', heap)
  /\ heap' = Collect(heap, Roots(criteria, templates', generations))
  /\ UNCHANGED <<tasks, nextId, criteria, totalScoreThresholds, scoreEdits, generations>>
  /\ StudentsUnchanged /\ GradingUnchanged /\ CsvUnchanged

\* the Template objects of a parsed value, their criteria still as objects
TemplateOf(o) ==
  [id |-> IdOf(o[<<"id">>]), name |-> o[<<"name">>], tasks |-> o[<<"tasks">>],
   criteria |-> CriteriaOf(o[<<"criteria">>]), timestamp |-> o[<<"timestamp">>]]

TemplatesOf(a) == [k \in 1..Len(a) |-> TemplateOf(a[k])]

\* the number of Criterion objects of the templates before template k
RECURSIVE Offset(_, _)
Offset(ts, k) == IF k = 1 THEN 0 ELSE Offset(ts, k - 1) + Len(ts[k - 1].criteria)

\* App.tsx:53-86: the page is loaded again.  The state is the initial one; the
\* load effect reads the slot, the save effect writes the empty list, and
\* after the render with the parsed list the save effect writes that list
Reload ==
  /\ ~Busy
  /\ nextId <= MaxIds
  /\ \E saved \in {slot} :
       \E parsed \in {IF saved # <<>> /\ saved[1] # <<>>
                       THEN TemplatesOf(JsonParse(saved[1])) ELSE <<>>} :
         LET objs == <<NewCriterion(nextId)>>
                       \o Flatten([k \in 1..Len(parsed) |-> parsed[k].criteria])
         IN  /\ heap' = [a \in 1..Len(objs) |-> objs[a]]
             /\ criteria' = <<1>>
             /\ templates' = [k \in 1..Len(parsed) |->
                                [parsed[k] EXCEPT !.criteria =
                                   [i \in 1..Len(parsed[k].criteria) |->
                                      1 + Offset(parsed, k) + i]]]
             /\ slot' = SaveEffect(templates', heap')
  /\ totalScoreThresholds' = Thresholds(Deref(criteria', heap'))
  /\ tasks' = << <<>> >>
  /\ students' = <<>>
  /\ isEvaluating' = FALSE
  /\ evaluatingProgress' = [current |-> 0, total |-> 0]
  /\ errorToast' = <<>>
  /\ report' = <<>>
  /\ showReport' = FALSE
  /\ batches' = <<>>
  /\ analyses' = 0
  /\ selectedTemplateId' = <<>>
  /\ generations' = [g \in 1..Len(generations) |-> Settled]
  /\ nextId' = nextId + 1
  /\ reads' = <<>>
  /\ UNCHANGED <<download, scoreEdits>>

(***************************** initial state *******************************)
Init ==
  /\ tasks = << <<>> >>
  /\ heap = (1 :> NewCriterion(1))
  /\ criteria = <<1>>
  /\ totalScoreThresholds = Thresholds(Deref(criteria, heap))
  /\ students = <<>>
  /\ isEvaluating = FALSE
  /\ evaluatingProgress = [current |-> 0, total |-> 0]
  /\ errorToast = <<>>
  /\ report = <<>>
  /\ showReport = FALSE
  /\ batches = <<>>
  /\ analyses = 0
  /\ download = <<>>
  /\ reads = <<>>
  /\ nextId = 2
  /\ scoreEdits = 0
  /\ templates = <<>>
  /\ selectedTemplateId = <<>>
  /\ slot = SaveEffect(templates, heap)
  /\ generations = <<>>

NextRubric ==
  \/ AddCriterion
  \/ \E cIdx \in 1..MaxCriteria : RemoveCriterion(cIdx)
  \/ \E cIdx \in 1..MaxCriteria, lIdx \in 1..5, v \in ScoreSet : EditScore(cIdx, lIdx, v)

SpecRubric == Init /\ [][NextRubric]_vars

NextCsv ==
  \/ AddStudent
  \/ \E sIdx \in 1..MaxStudents, v \in NameSet : EditName(sIdx, v)
  \/ \E sIdx \in 1..MaxStudents, v \in CsvAnswerSet : EditAnswer(sIdx, 1, v)
  \/ ExportCsv
  \/ ChooseExport
  \/ \E r \in 1..MaxReads : FileLoaded(r)

SpecCsv == Init /\ [][NextCsv]_vars

\* saving, deleting and reloading, with edits of the rubric and the tasks in between
NextStorage ==
  \/ \E name \in TemplateNames : SaveTemplate(name)
  \/ \E k \in 1..MaxTemplates : DeleteTemplate(k)
  \/ Reload
  \/ \E cIdx \in 1..MaxCriteria, v \in FocusSet : EditFocus(cIdx, v)
  \/ AddTask
  \/ \E idx \in 1..MaxTasks, v \in TaskSet : EditTask(idx, v)

SpecStorage == Init /\ [][NextStorage]_vars

\* saving a template, editing the working rubric and the tasks, loading
NextSnapshot ==
  \/ \E name \in TemplateNames : SaveTemplate(name)
  \/ \E k \in 1..MaxTemplates : LoadTemplate(k)
  \/ AddCriterion
  \/ \E cIdx \in 1..MaxCriteria : RemoveCriterion(cIdx)
  \/ \E cIdx \in 1..MaxCriteria, lIdx \in EditedLevels, v \in ScoreSet :
       EditScore(cIdx, lIdx, v)
  \/ \E cIdx \in 1..MaxCriteria, v \in FocusSet : EditFocus(cIdx, v)
  \/ \E cIdx \in 1..MaxCriteria, lIdx \in EditedLevels, v \in DescriptionSet :
       EditDescription(cIdx, lIdx, v)
  \/ \E idx \in 1..MaxTasks : RemoveTask(idx)
  \/ AddTask

SpecSnapshot == Init /\ [][NextSnapshot]_vars

\* generating level descriptions while the rubric is edited and replaced
NextGenerate ==
  \/ \E cIdx \in 1..MaxCriteria : ClickGenerate(cIdx)
  \/ \E g \in 1..MaxGenerations, resp \in GenResponses : GenerateSettle(g, resp)
  \/ AddCriterion
  \/ \E cIdx \in 1..MaxCriteria : RemoveCriterion(cIdx)
  \/ \E cIdx \in EditedCriteria, lIdx \in EditedLevels, v \in EditedScores :
       EditScore(cIdx, lIdx, v)
  \/ \E cIdx \in EditedCriteria, v \in FocusSet : EditFocus(cIdx, v)
  \/ \E cIdx \in EditedCriteria, lIdx \in EditedLevels, v \in DescriptionSet :
       EditDescription(cIdx, lIdx, v)
  \/ \E name \in TemplateNames : SaveTemplate(name)
  \/ \E k \in 1..MaxTemplates : LoadTemplate(k)
  \/ SelectTemplate(<<>>)

SpecGenerate == Init /\ [][NextGenerate]_vars

\* the ids the template select can be set to
SelectIds == { <<>> } \cup { <<i>> : i \in 2..MaxIds }

\* tasks, students and their answers, files and templates
NextTasks ==
  \/ AddTask
  \/ \E idx \in 1..MaxTasks : RemoveTask(idx)
  \/ AddStudent
  \/ \E sIdx \in 1..MaxStudents, tIdx \in 1..MaxTasks : EditAnswer(sIdx, tIdx, <<"a">>)
  \/ \E text \in CsvFiles : ChooseFile(text)
  \/ \E r \in 1..MaxReads : FileLoaded(r)
  \/ \E name \in TemplateNames : SaveTemplate(name)
  \/ \E id \in SelectIds : SelectTemplate(id)

SpecTasks == Init /\ [][NextTasks]_vars

\* one student with an answer, as AddStudent and EditAnswer leave it
InitGraded ==
  /\ tasks = << <<>> >>
  /\ heap = (1 :> NewCriterion(1))
  /\ criteria = <<1>>
  /\ totalScoreThresholds = Thresholds(Deref(criteria, heap))
  /\ students = << [NewStudent(2, <<"XueSheng", " ">> \o NumToString(1), << <<"a">> >>)
                     EXCEPT !.contents[1] = <<"a">>] >>
  /\ isEvaluating = FALSE
  /\ evaluatingProgress = [current |-> 0, total |-> 0]
  /\ errorToast = <<>>
  /\ report = <<>>
  /\ showReport = FALSE
  /\ batches = <<>>
  /\ analyses = 0
  /\ download = <<>>
  /\ reads = <<>>
  /\ nextId = 3
  /\ scoreEdits = 0
  /\ templates = <<>>
  /\ selectedTemplateId = <<>>
  /\ slot = SaveEffect(templates, heap)
  /\ generations = <<>>

\* the totals the model is made to return under the default rubric
ProbeResponses ==
  {[kind |-> "reject", value |-> <<>>]}
  \cup {[kind |-> "json",
         value |-> [score |-> sc, levelLabel |-> AiLabel, feedback |-> AiFeedback]] :
        sc \in (0 - 1)..101}

NextDefault ==
  \/ startBatchGrading
  \/ \E b \in 1..MaxBatches : LoopStep(b)
  \/ \E b \in 1..MaxBatches, resp \in ProbeResponses : EvalSettle(b, resp)
  \/ \E b \in 1..MaxBatches : DelayElapsed(b)

SpecDefault == InitGraded /\ [][NextDefault]_vars

\* the totals returned while the top score is edited: below 0, inside the
\* bands, between the edited and the default top score, above both
LabelResponses ==
  {[kind |-> "reject", value |-> <<>>]}
  \cup {[kind |-> "json",
         value |-> [score |-> sc, levelLabel |-> lb, feedback |-> AiFeedback]] :
        sc \in {0 - 1, 0, 85, 97, 101}, lb \in {AiLabel, BaseLabel(1)}}

\* grading while the teacher edits a score
NextLabel ==
  \/ startBatchGrading
  \/ \E b \in 1..MaxBatches : LoopStep(b)
  \/ \E b \in 1..MaxBatches, resp \in LabelResponses : EvalSettle(b, resp)
  \/ \E b \in 1..MaxBatches : DelayElapsed(b)
  \/ \E cIdx \in EditedCriteria, lIdx \in 1..2, v \in ScoreSet : EditScore(cIdx, lIdx, v)

SpecLabel == InitGraded /\ [][NextLabel]_vars

\* the steps the event loop, the network and the timers take by themselves
SystemNext ==
  \/ \E b \in 1..MaxBatches : LoopStep(b)
  \/ \E b \in 1..MaxBatches, resp \in EvalResponses : EvalSettle(b, resp)
  \/ \E b \in 1..MaxBatches : DelayElapsed(b)
  \/ \E resp \in AnalysisResponses : AnalysisSettle(resp)

UserNext ==
  \/ AddStudent
  \/ \E sIdx \in 1..MaxStudents, v \in AnswerSet : EditAnswer(sIdx, 1, v)
  \/ startBatchGrading
  \/ ClickAnalysis

Next == UserNext \/ SystemNext

Spec == Init /\ [][Next]_vars

\* every AI call settles and every timer fires
FairSpec == Spec /\ WF_vars(SystemNext)

(***************************** claims **************************************)
LevelScores(c) == [l \in 1..Len(c.levels) |-> c.levels[l].score]

DefaultRubric ==
  /\ Len(criteria) = 1
  /\ LevelScores(heap[criteria[1]]) = <<100, 89, 79, 69, 59>>

C1_Expected(t) ==
  IF t >= 90 THEN <<"ChaoJiYouYi">>
  ELSE IF t >= 80 THEN <<"BiaoXianLiangHao">>
  ELSE IF t >= 70 THEN <<"YiJingZuoDao">>
  ELSE IF t >= 60 THEN <<"HaiYaoJiaYou">>
  ELSE <<"NuLiGaiJin">>

\* C1: with the single default criterion [100,89,79,69,59] every total in
\* 0..100 gets the label of its band (90..100, 80..89, 70..79, 60..69, 0..59),
\* 85 the second one, and a student graded with such a total carries it.
C1_DefaultBands ==
  DefaultRubric =>
    /\ getLevelLabelFromScore(totalScoreThresholds, 85) = <<"BiaoXianLiangHao">>
    /\ \A t \in 0..100 : getLevelLabelFromScore(totalScoreThresholds, t) = C1_Expected(t)
    /\ \A k \in 1..Len(students) :
         (students[k].status = "done" /\ students[k].score[1] \in 0..100)
           => students[k].levelLabel = C1_Expected(students[k].score[1])

C1_Witness ==
  /\ DefaultRubric
  /\ \E k \in 1..Len(students) :
       /\ students[k].status = "done"
       /\ students[k].score = <<85>>
       /\ students[k].levelLabel = <<"BiaoXianLiangHao">>

\* the sum over all criteria of (score of level l, plus extra)
RECURSIVE LevelSum(_, _, _)
LevelSum(cs, l, extra) ==
  IF Len(cs) = 0 THEN 0
  ELSE LevelSum(SubSeq(cs, 1, Len(cs) - 1), l, extra) + cs[Len(cs)].levels[l].score + extra

InBand(th, i, t) == th[i].floor <= t /\ t <= th[i].ceiling

\* the totals the bands are probed with: from below 0 to above every bound
ProbeTotals(th) ==
  LET marks == {th[i].floor : i \in 1..5} \cup {th[i].ceiling : i \in 1..5} \cup {0}
      top == CHOOSE m \in marks : \A x \in marks : x <= m
  IN  (0 - 1)..(top + 1)

\* C2: the floor of band i < 5 is the sum of (score of level i+1, plus 1), the
\* floor of band 5 is 0, the ceiling of band 1 is the sum of the top scores,
\* every other ceiling is the floor above minus one, and a total gets the
\* label of the first band that holds it, or the undetermined label.
C2_Bands ==
  LET cs == Deref(criteria, heap)
      th == totalScoreThresholds
  IN  /\ Len(th) = 5
      /\ \A i \in 1..4 : th[i].floor = LevelSum(cs, i + 1, 1)
      /\ th[5].floor = 0
      /\ th[1].ceiling = LevelSum(cs, 1, 0)
      /\ \A i \in 2..5 : th[i].ceiling = th[i - 1].floor - 1
      /\ \A t \in ProbeTotals(th) :
           LET label == getLevelLabelFromScore(th, t)
           IN  \/ \E i \in 1..5 : /\ InBand(th, i, t)
                                  /\ \A j \in 1..(i - 1) : ~InBand(th, j, t)
                                  /\ label = th[i].label
               \/ /\ \A i \in 1..5 : ~InBand(th, i, t)
                  /\ label = Undetermined

\* two criteria, typed scores that no longer decrease (a band is empty), a
\* total that lands in the band below the empty one, one above the top
C2_Witness ==
  LET th == totalScoreThresholds
  IN  /\ Len(criteria) = 2
      /\ scoreEdits > 0
      /\ th[3].floor > th[3].ceiling
      /\ getLevelLabelFromScore(th, th[4].floor) = <<"HaiYaoJiaYou">>
      /\ getLevelLabelFromScore(th, th[1].ceiling + 1) = Undetermined

NameAnswers(ss) == [k \in 1..Len(ss) |-> <<ss[k].name, ss[k].contents>>]

\* C3: importing the file the export handler produced, with the same tasks,
\* gives a list with the names and answers of the list that was exported.
C3_RoundTrip ==
  [][\A r \in 1..Len(reads) :
       (/\ download # <<>>
        /\ reads[r] = [text |-> download[1].text, tasks |-> download[1].tasks]
        /\ download[1].tasks = tasks
        /\ FileLoaded(r))
         => NameAnswers(students') = NameAnswers(download[1].source)]_vars

InFlight == {b \in DOMAIN batches : batches[b].pc = "awaitEval"}

\* C4: at most one evaluateStudentWork call is outstanding.
C4_OneOutstanding == Cardinality(InFlight) <= 1

NoDuplicates(q) == \A j, k \in 1..Len(q) : j # k => q[j] # q[k]

\* the calls of every running batch follow the order of its targets, one call
\* per target, and a failed call for target k is followed by the call for k + 1
C5_InOrder ==
  \A b \in DOMAIN batches :
    LET bt == batches[b]
    IN  /\ NoDuplicates(bt.targets)
        /\ Len(bt.issued) <= Len(bt.targets)
        /\ bt.issued = SubSeq(bt.targets, 1, Len(bt.issued))
        /\ \A k \in 1..Len(bt.outcomes) :
             (bt.outcomes[k] = "err" /\ k < Len(bt.targets) /\ bt.pc # "loop")
               => Len(bt.issued) > k

\* a batch returns only after it has called every target
C5_EndsComplete ==
  \A b \in DOMAIN batches : b \notin DOMAIN batches' => batches[b].issued = batches[b].targets

\* C5: in every batch the calls are issued in the order of the targets, one
\* call per target; a batch ends only when every target was called; a failure
\* of the call for target k is followed by the call for target k + 1.
C5_LoopContinues == []C5_InOrder /\ [][C5_EndsComplete]_vars

\* a batch of two targets whose first call failed and whose second call is out
C5_Witness ==
  \E b \in DOMAIN batches :
    /\ Len(batches[b].targets) = 2
    /\ Len(batches[b].outcomes) >= 1
    /\ batches[b].outcomes[1] = "err"
    /\ batches[b].issued = batches[b].targets

\* C6: a call that is not the first of its batch is issued only after the
\* delay has elapsed since the previous call ended.
C6_DelayBetweenCalls ==
  [][\A b \in DOMAIN batches \cap DOMAIN batches' :
       (Len(batches[b].issued) >= 1 /\ Len(batches'[b].issued) > Len(batches[b].issued))
         => batches[b].delayed]_vars

\* the step in which the catch block of batch b runs
FailureStep(b) ==
  /\ b \in DOMAIN batches'
  /\ Len(batches'[b].outcomes) = Len(batches[b].outcomes) + 1
  /\ batches'[b].outcomes[Len(batches'[b].outcomes)] = "err"

\* C7: a failed call sets the status of its student to error, with a message,
\* keeps that student's score, label and feedback, and changes no other record.
C7_FailureIsLocal ==
  [][\A b \in DOMAIN batches :
       FailureStep(b) =>
         LET id == batches[b].targets[batches[b].i]
         IN  /\ Len(students') = Len(students)
             /\ \A k \in 1..Len(students) :
                  IF students[k].id = id
                  THEN /\ students'[k].status = "error"
                       /\ students'[k].errorMsg # <<>>
                       /\ students'[k] = [students[k] EXCEPT !.status = "error",
                                            !.errorMsg = students'[k].errorMsg]
                  ELSE students'[k] = students[k]]_vars

\* a student whose call failed and who keeps an earlier score, beside a
\* student who is done
C7_Witness ==
  /\ \E k \in 1..Len(students) :
       /\ students[k].status = "error"
       /\ students[k].errorMsg # <<>>
       /\ students[k].score # <<>>
       /\ students[k].feedback # <<>>
  /\ \E k \in 1..Len(students) : students[k].status = "done"

Quiescent == analyses = 0 /\ DOMAIN batches = {}

\* C8: when every handler that set the evaluating flag has ended, whatever
\* the outcome of its AI call, the flag is cleared.
C8_FlagCleared == Quiescent => ~isEvaluating

\* C9: a toast that was set goes away again.
C9_ToastTransient == (errorToast # <<>>) ~> (errorToast = <<>>)

\* C10: a student who is done is not sent again, and the score, the label
\* and the feedback stay as they are.
C10_DoneIsFinal ==
  [][\A k \in 1..Len(students) :
       students[k].status = "done" =>
         /\ \A b \in DOMAIN batches \cap DOMAIN batches' :
              Len(batches'[b].issued) > Len(batches[b].issued)
                => batches'[b].issued[Len(batches'[b].issued)] # students[k].id
         /\ \A j \in 1..Len(students') :
              students'[j].id = students[k].id =>
                /\ students'[j].score = students[k].score
                /\ students'[j].levelLabel = students[k].levelLabel
                /\ students'[j].feedback = students[k].feedback]_vars

Targets(b) == {batches[b].targets[k] : k \in 1..Len(batches[b].targets)}

\* while a batch runs the progress counter stays within 0..total
C11_ProgressInRange ==
  DOMAIN batches # {} =>
    0 <= evaluatingProgress.current /\ evaluatingProgress.current <= evaluatingProgress.total

\* when the evaluating flag falls no target of a batch is left loading and the
\* progress counter has reached its total
C11_AtFlagFall ==
  (isEvaluating /\ ~isEvaluating') =>
    \A b \in DOMAIN batches :
      /\ \A k \in 1..Len(students') :
           students'[k].id \in Targets(b) => students'[k].status \in {"done", "error"}
      /\ evaluatingProgress'.current = evaluatingProgress'.total

\* C11: a batch that started runs to its end: when the evaluating flag becomes
\* false every target of the batch is done or error, none is loading, and the
\* progress counter has current = total; during the batch 0 <= current <= total.
C11_RunsToCompletion == []C11_ProgressInRange /\ [][C11_AtFlagFall]_vars


TemplateIds(ts) == {ts[k].id : k \in 1..Len(ts)}

\* a template as it is listed: id, name and tasks
Listed(ts) == [k \in 1..Len(ts) |-> <<ts[k].id, ts[k].name, ts[k].tasks>>]

\* a template with the Criterion objects its array points to
Content(t, h) == [t EXCEPT !.criteria = Deref(t.criteria, h)]

\* after a change of the template list the slot holds its serialization
C12_SlotWritten ==
  templates' # templates => slot' = <<StringifyTemplates(templates', heap')>>

\* a reload ends with the list the slot held and leaves the slot as it was
C12_ReloadKeeps ==
  (Reload /\ slot # <<>>) =>
    /\ slot' = slot
    /\ [k \in 1..Len(templates') |-> Content(templates'[k], heap')]
         = TemplatesOf(JsonParse(slot[1]))
    /\ Listed(templates') = Listed(templates)

\* a template leaves the list only when it is deleted
C12_OnlyDeleted ==
  (TemplateIds(templates) \ TemplateIds(templates') # {})
    => \E k \in 1..Len(templates) :
         /\ DeleteTemplate(k)
         /\ TemplateIds(templates) \ TemplateIds(templates') = {templates[k].id}

\* C12: the slot mirrors the template list: it holds the serialization of the
\* list after every save and delete, a reload restores the list the slot
\* holds and leaves the slot unchanged, and a template disappears only by
\* explicit deletion.
C12_SlotMirrors == [][C12_SlotWritten /\ C12_ReloadKeeps /\ C12_OnlyDeleted]_vars

\* a template saved before the page was loaded again
C12_Witness ==
  /\ Len(templates) = 1
  /\ heap[criteria[1]].id > templates[1].id
  /\ templates[1].name \in TemplateNames
  /\ slot = <<StringifyTemplates(templates, heap)>>

\* C13: every criterion of the working rubric has exactly five levels.
C13_FiveLevels ==
  \A i \in 1..Len(criteria) : Len(heap[criteria[i]].levels) = 5

\* a criterion for which six strings were returned, beside a saved template
C13_Witness ==
  /\ Len(templates) = 1
  /\ \E i \in 1..Len(criteria) :
       /\ heap[criteria[i]].levels[5].criteria = GenText(5)
       /\ Len(heap[criteria[i]].levels) = 5

\* C16: a stored template keeps the tasks and the criteria it was saved with,
\* whatever is done to the working rubric afterwards, and loading it makes the
\* working rubric equal to what was stored.
C16_Snapshot ==
  [][/\ \A k \in 1..Len(templates) :
          \A j \in 1..Len(templates') :
            templates'[j].id = templates[k].id
              => Content(templates'[j], heap') = Content(templates[k], heap)
     /\ \A k \in 1..Len(templates) :
          LoadTemplate(k) =>
            /\ tasks' = templates[k].tasks
            /\ Deref(criteria', heap') = Deref(templates[k].criteria, heap)]_vars

\* the id of the criterion a pending generation was requested for
Requested(g) == heap[generations[g].criteria[generations[g].cIdx]].id

\* a criterion as it is but for the descriptions of its levels
SansDescriptions(c) ==
  [c EXCEPT !.levels = [l \in 1..Len(c.levels) |-> [c.levels[l] EXCEPT !.criteria = <<>>]]]

\* C17: when the response of a rubric generation arrives, the working rubric
\* keeps its criteria (none added meanwhile is lost, none removed comes back,
\* a loaded rubric is not replaced), and only the level descriptions of the
\* criterion the request was made for change.
C17_ResponseIsLocal ==
  [][\A g \in 1..Len(generations) :
       (generations[g] # Settled /\ generations'[g] = Settled) =>
         LET old == Deref(criteria, heap)
             new == Deref(criteria', heap')
         IN  /\ Len(new) = Len(old)
             /\ \A i \in 1..Len(old) :
                  IF i <= Len(new) /\ old[i].id = Requested(g)
                  THEN SansDescriptions(new[i]) = SansDescriptions(old[i])
                  ELSE i <= Len(new) /\ new[i] = old[i]]_vars


\* the columns of line k of a text
Columns(text, k) == Split(Split(text, <<"\n">>)[k], <<",">>)

\* what the file read r must leave in the student list
C14_Imported(r) ==
  LET text == reads[r].text
      n == Len(Split(text, <<"\n">>)) - 1
  IN  /\ Len(students') = n
      /\ \A k \in 1..n :
           LET st == students'[k]
               cols == Columns(text, k + 1)
           IN  /\ st.name = cols[1]
               /\ Len(st.contents) = Len(tasks)
               /\ \A i \in 1..Len(tasks) :
                    st.contents[i] = IF i + 1 <= Len(cols) THEN cols[i + 1] ELSE <<>>
               /\ st.status = "idle"
               /\ st.score = <<>>
               /\ st.levelLabel = <<>>
               /\ st.feedback = <<>>

C18_SameLength ==
  \A k \in 1..Len(students) : Len(students[k].contents) = Len(tasks)

\* the answers to a removed task go with it, a new task gets an empty answer
C18_Follows ==
  /\ \A idx \in 1..Len(tasks) :
       RemoveTask(idx) =>
         \A k \in 1..Len(students) :
           idx <= Len(students[k].contents)
             => students'[k].contents = RemoveAt(students[k].contents, idx)
  /\ AddTask =>
       \A k \in 1..Len(students) :
         students'[k].contents = Append(students[k].contents, <<>>)

\* C18: every student's answer list is as long as the task list, and answer
\* i stays the answer to task i when tasks are added and removed.
C18_Aligned == []C18_SameLength /\ [][C18_Follows]_vars


BaseLabels == {BaseLabel(i) : i \in 1..5}

\* the label of the first band of th that holds t, if there is one
C15_ByBands(th, t, label) ==
  \/ \E i \in 1..5 : /\ InBand(th, i, t)
                     /\ \A j \in 1..(i - 1) : ~InBand(th, j, t)
                     /\ label = BaseLabel(i)
  \/ /\ \A i \in 1..5 : ~InBand(th, i, t)
     /\ label = Undetermined

\* C15: a batch works with the thresholds of the moment it started; when its
\* call returns a result, the target is done with the returned score and the
\* label of the band of those thresholds that holds the score, 未判定 when no
\* band does, whatever label the model returned.
C15_LabelFromScore ==
  [][/\ \A b \in DOMAIN batches' \ DOMAIN batches :
          batches'[b].thresholds = totalScoreThresholds
     /\ \A b \in DOMAIN batches : \A resp \in LabelResponses :
          (resp.kind = "json" /\ EvalSettle(b, resp)) =>
            \A k \in 1..Len(students) :
              students[k].id = batches[b].targets[batches[b].i] =>
                /\ students'[k].status = "done"
                /\ students'[k].score = <<resp.value.score>>
                /\ students'[k].levelLabel \in BaseLabels \cup {Undetermined}
                /\ C15_ByBands(batches[b].thresholds, resp.value.score,
                               students'[k].levelLabel)]_vars

\* graded 97 by a batch that started before the top score was lowered to 95:
\* the label is the top one, which the bands of the present rubric do not give
C15_Witness ==
  /\ \E b \in DOMAIN batches : batches[b].thresholds # totalScoreThresholds
  /\ \E k \in 1..Len(students) :
       /\ students[k].status = "done"
       /\ students[k].score = <<97>>
       /\ students[k].levelLabel = BaseLabel(1)
       /\ getLevelLabelFromScore(totalScoreThresholds, 97) = Undetermined


\* the level scores of criterion c are non-negative and strictly decreasing
Decreasing(c) ==
  /\ \A l \in 1..4 : c.levels[l].score > c.levels[l + 1].score
  /\ c.levels[5].score >= 0

\* the sum of the top scores of the criteria cs
RECURSIVE TopSum(_)
TopSum(cs) == IF cs = <<>> THEN 0 ELSE cs[1].levels[1].score + TopSum(Tail(cs))

\* C19: with at least one criterion, and strictly decreasing non-negative
\* level scores in every criterion, the five bands are non-empty, pairwise
\* disjoint and cover 0..sum of the top scores: every such total gets exactly
\* one of the five labels, never 未判定.
C19_BandsPartition ==
  LET cs == Deref(criteria, heap)
      th == totalScoreThresholds
  IN  (Len(cs) >= 1 /\ \A c \in 1..Len(cs) : Decreasing(cs[c])) =>
        /\ \A i \in 1..5 : th[i].floor <= th[i].ceiling
        /\ \A i \in 1..5 : \A j \in 1..5 :
             i # j => (th[i].ceiling < th[j].floor \/ th[j].ceiling < th[i].floor)
        /\ \A t \in 0..TopSum(cs) :
             /\ Cardinality({i \in 1..5 : th[i].floor <= t /\ t <= th[i].ceiling}) = 1
             /\ getLevelLabelFromScore(th, t) # Undetermined
             /\ \E i \in 1..5 : /\ th[i].floor <= t /\ t <= th[i].ceiling
                                /\ getLevelLabelFromScore(th, t) = BaseLabel(i)

\* two criteria, one with its top score typed as 95: still decreasing, and
\* the total 195 is the top of the first band
C19_Witness ==
  LET cs == Deref(criteria, heap)
  IN  /\ Len(cs) = 2
      /\ scoreEdits > 0
      /\ \A c \in 1..2 : Decreasing(cs[c])
      /\ TopSum(cs) = 195
      /\ totalScoreThresholds[1].ceiling = 195
      /\ getLevelLabelFromScore(totalScoreThresholds, 195) = BaseLabel(1)

====
